---- MODULE Spec2Model ----
(***************************************************************************)
(* Model of the CLIF cohort identification template                        *)
(*   src/utils/config.py                                                   *)
(*   src/code/templates/Python/01_cohort_identification_template.py        *)
(*                                                                         *)
(* The script is a straight-line program: pc holds the number of the       *)
(* source line of the statement that executes next, error holds the        *)
(* exception that ended the run ("none" while it is running).  An uncaught *)
(* exception leaves pc at the raising line.                                *)
(*                                                                         *)
(* Spec is the script from process start (line 9).  PipelineSpec is lines  *)
(* 44-102 entered with the three settings given.  The files are the        *)
(* environment: config/config.json is fixed at the start, the content of a *)
(* table file is chosen when the file is opened and kept in `opened`.      *)
(***************************************************************************)
EXTENDS Integers, Sequences, FiniteSets, TLC

\* Largest number of rows of an enumerated hospitalization table.
MaxRows == 2

(***************************************************************************)
(* Source lines of the statements of the script.                           *)
(***************************************************************************)
LineImport == 9
LineAccess == 18
LinePaths == 44
LineFirstRead == 83
LineCoerce == 92
LineDateFilter == 95
LineAgeFilter == 101
LineProject == 102
LineEnd == 107

(***************************************************************************)
(* Text of a date or of a date with a time of day, "YYYY-MM-DD[ HH:00]",   *)
(* as it stands in a file or in the script: a date alone has hour 0.       *)
(***************************************************************************)
DateText(y, m, d) == [kind |-> "text", year |-> y, month |-> m, day |-> d, hour |-> 0]

DateTimeText(y, m, d, h) == [kind |-> "text", year |-> y, month |-> m, day |-> d, hour |-> h]

NullCell == [kind |-> "null"]

GarbageText == [kind |-> "garbage"]

NaT == [kind |-> "NaT"]

start_date == DateText(2020, 1, 1)

end_date == DateText(2021, 12, 31)

(***************************************************************************)
(* pandas' Timestamp of a text: hours since 1970-01-01 00:00 of the        *)
(* proleptic Gregorian calendar.                                           *)
(***************************************************************************)
DaysFromCivil(y, m, d) ==
    LET yy  == IF m <= 2 THEN y - 1 ELSE y
        era == yy \div 400
        yoe == yy - era * 400
        mp  == IF m > 2 THEN m - 3 ELSE m + 9
        doy == (153 * mp + 2) \div 5 + d - 1
        doe == yoe * 365 + yoe \div 4 - yoe \div 100 + doy
    IN  era * 146097 + doe - 719468

Timestamp(text) ==
    [kind |-> "ts", t |-> DaysFromCivil(text.year, text.month, text.day) * 24 + text.hour]

\* pd.to_datetime of one cell; the caller has excluded unparseable text.
ToDatetimeCell(c) ==
    CASE c.kind = "text" -> Timestamp(c)
      [] c.kind = "ts"   -> c
      [] OTHER           -> NaT

\* Series >= "YYYY-MM-DD": the string becomes a Timestamp, NaT compares False.
SeriesGe(c, text) == c.kind = "ts" /\ c.t >= Timestamp(text).t

\* Series <= "YYYY-MM-DD".
SeriesLe(c, text) == c.kind = "ts" /\ c.t <= Timestamp(text).t

(***************************************************************************)
(* DataFrames: a set of column names and a sequence of rows, each row a    *)
(* record over the columns.  NoFrame is a name not yet bound.              *)
(***************************************************************************)
NoFrame == [columns |-> {}, rows |-> <<>>, bound |-> FALSE]

Frame(cols, rws) == [columns |-> cols, rows |-> rws, bound |-> TRUE]

HospColumns == {"hospitalization_id", "admission_dttm", "age_at_admission"}

\* df[mask]: the rows at which the boolean mask holds, in order.
SelectRows(rws, mask) ==
    LET F[i \in 0..Len(rws)] ==
            IF i = 0 THEN <<>>
            ELSE IF mask[i] THEN Append(F[i - 1], rws[i]) ELSE F[i - 1]
    IN  F[Len(rws)]

Ok(frame) == [err |-> "none", df |-> frame]

Raise(e) == [err |-> e, df |-> NoFrame]

\* Line 92: clif_hospitalization['admission_dttm'] = pd.to_datetime(...).
CoerceAdmission(df) ==
    IF "admission_dttm" \notin df.columns THEN Raise("KeyError")
    ELSE IF \E i \in 1..Len(df.rows) : df.rows[i].admission_dttm.kind = "garbage"
         THEN Raise("DateParseError")
    ELSE Ok(Frame(df.columns,
                  [i \in 1..Len(df.rows) |->
                      [df.rows[i] EXCEPT !.admission_dttm = ToDatetimeCell(@)]]))

\* The date filter applied from the second row on.
DateFilterSkipFirst(df) ==
    IF "admission_dttm" \notin df.columns THEN Raise("KeyError")
    ELSE Ok(Frame(df.columns,
                  SelectRows(df.rows,
                             [i \in 1..Len(df.rows) |->
                                 /\ i > 1
                                 /\ SeriesGe(df.rows[i].admission_dttm, start_date)
                                 /\ SeriesLe(df.rows[i].admission_dttm, end_date)])))

\* Lines 95-98: the rows admitted from start_date to end_date.
DateFilter(df) ==
    IF "admission_dttm" \notin df.columns THEN Raise("KeyError")
    ELSE Ok(Frame(df.columns,
                  SelectRows(df.rows,
                             [i \in 1..Len(df.rows) |->
                                 /\ SeriesGe(df.rows[i].admission_dttm, start_date)
                                 /\ SeriesLe(df.rows[i].admission_dttm, end_date)])))

\* The age filter with > for >=.
AgeFilterStrict(df) ==
    IF "age_at_admission" \notin df.columns THEN Raise("KeyError")
    ELSE Ok(Frame(df.columns,
                  SelectRows(df.rows,
                             [i \in 1..Len(df.rows) |-> df.rows[i].age_at_admission > 18])))

\* The age filter left out.
AgeFilterNone(df) ==
    IF "age_at_admission" \notin df.columns THEN Raise("KeyError") ELSE Ok(df)

\* Line 101: the adults.
AgeFilter(df) ==
    IF "age_at_admission" \notin df.columns THEN Raise("KeyError")
    ELSE Ok(Frame(df.columns,
                  SelectRows(df.rows,
                             [i \in 1..Len(df.rows) |-> df.rows[i].age_at_admission >= 18])))

\* drop_duplicates left out.
DropDuplicatesNone(df) == df

\* DataFrame.drop_duplicates: the first occurrence of every row is kept.
DropDuplicates(df) ==
    LET F[i \in 0..Len(df.rows)] ==
            IF i = 0 THEN <<>>
            ELSE IF \E j \in 1..Len(F[i - 1]) : F[i - 1][j] = df.rows[i]
                 THEN F[i - 1]
                 ELSE Append(F[i - 1], df.rows[i])
    IN  Frame(df.columns, F[Len(df.rows)])

\* Line 102: cohort[['hospitalization_id']].drop_duplicates().
ProjectIds(df) ==
    IF "hospitalization_id" \notin df.columns THEN Raise("KeyError")
    ELSE Ok(DropDuplicates(
                Frame({"hospitalization_id"},
                      [i \in 1..Len(df.rows) |->
                          [hospitalization_id |-> df.rows[i].hospitalization_id]])))

\* Lines 92-102 as one function of the hospitalization table.
CohortFilter(df) ==
    LET a == CoerceAdmission(df)
        b == IF a.err = "none" THEN DateFilter(a.df) ELSE a
        c == IF b.err = "none" THEN AgeFilter(b.df) ELSE b
    IN  IF c.err = "none" THEN ProjectIds(c.df) ELSE c

(***************************************************************************)
(* utils/config.py and the start of the script (lines 9-20).               *)
(***************************************************************************)
Unset == "<unset>"

Unbound == [kind |-> "unbound", attrs |-> <<>>, items |-> <<>>]

Mapping(m) == [kind |-> "dict", attrs |-> <<>>, items |-> m]

\* A module object: its global names are its attributes, it has no items.
Module(globals) == [kind |-> "module", attrs |-> globals, items |-> <<>>]

AbsentConfig == [state |-> "absent", items |-> <<>>]

MalformedConfig == [state |-> "malformed", items |-> <<>>]

\* A file holding valid JSON that is not an object, such as [].
ArrayConfig == [state |-> "array", items |-> <<>>]

JsonObject(m) == [state |-> "object", items |-> m]

\* load_config with a fallback: a missing file yields an empty mapping.
load_config_default(file) ==
    CASE file.state = "absent"    -> [err |-> "none", value |-> Mapping(<<>>)]
      [] file.state = "malformed" -> [err |-> "JSONDecodeError", value |-> Unbound]
      [] file.state = "array"     -> [err |-> "none", value |-> [kind |-> "list", attrs |-> <<>>, items |-> <<>>]]
      [] OTHER                    -> [err |-> "none", value |-> Mapping(file.items)]

\* utils/config.py, load_config(): the mapping of config/config.json or an error.
load_config(file) ==
    CASE file.state = "absent"    -> [err |-> "FileNotFoundError", value |-> Unbound]
      [] file.state = "malformed" -> [err |-> "JSONDecodeError", value |-> Unbound]
      [] file.state = "array"     -> [err |-> "none", value |-> [kind |-> "list", attrs |-> <<>>, items |-> <<>>]]
      [] OTHER                    -> [err |-> "none", value |-> Mapping(file.items)]

\* `from utils import config`: utils has no attribute config until the
\* submodule utils.config is imported, which runs load_config() (line 17) and
\* binds the name to the submodule.
ImportUtilsConfig(onPath, file) ==
    IF ~onPath THEN [err |-> "ModuleNotFoundError", value |-> Unbound]
    ELSE LET r == load_config(file)
         IN  IF r.err = "none"
             THEN [err |-> "none", value |-> Module([config |-> r.value])]
             ELSE r

\* obj[key]
Subscript(obj, key) ==
    CASE obj.kind = "dict" /\ key \in DOMAIN obj.items    -> [err |-> "none", value |-> obj.items[key]]
      [] obj.kind = "dict" /\ key \notin DOMAIN obj.items -> [err |-> "KeyError", value |-> Unset]
      [] obj.kind = "unbound"                              -> [err |-> "NameError", value |-> Unset]
      [] OTHER                                             -> [err |-> "TypeError", value |-> Unset]

(***************************************************************************)
(* The table files and read_data (lines 44-88).                            *)
(***************************************************************************)
Tables ==
    <<"adt", "hospitalization", "vitals", "labs",
      "medication_admin_continuous", "respiratory_support">>

TableNames == {Tables[i] : i \in 1..Len(Tables)}

\* Lines 44-49: f"{tables_path}/clif_<table>.{file_type}".
FilePath(dir, table, ext) == dir \o "/clif_" \o table \o "." \o ext

Unopened == [state |-> "unopened", table |-> NoFrame]

AbsentFile == [state |-> "absent", table |-> NoFrame]

TableFile(f) == [state |-> "present", table |-> f]

\* pd.read_csv(filepath) / pq.read_table(filepath).to_pandas() on `file`,
\* the file found at filepath.
ReadFile(filepath, file) ==
    IF file.state = "present"
    THEN [err |-> "none", df |-> file.table, opens |-> <<filepath>>]
    ELSE [err |-> "FileNotFoundError", df |-> NoFrame, opens |-> <<filepath>>]

\* Lines 52-80.
read_data(filepath, filetype, file) ==
    IF filetype = "csv" THEN ReadFile(filepath, file)
    ELSE IF filetype = "parquet" THEN ReadFile(filepath, file)
    ELSE [err |-> "ValueError", df |-> NoFrame, opens |-> <<>>]

\* Every other read line.
AfterReadSkip(line) ==
    IF line >= LineFirstRead + Len(Tables) - 2 THEN LineCoerce ELSE line + 2

\* The line after a read: lines 83-88 follow one another, then line 92.
AfterRead(line) == IF line = LineFirstRead + Len(Tables) - 1 THEN LineCoerce ELSE line + 1

(***************************************************************************)
(* Inputs.                                                                 *)
(***************************************************************************)
SiteNames == {"site_a", "site_b"}

TablesPaths == {"data", "/mnt/clif"}

FileTypes == {"csv", "parquet", "xlsx", "CSV"}

ConfigFiles ==
    {AbsentConfig, MalformedConfig, ArrayConfig}
    \cup {JsonObject([site_name |-> s, tables_path |-> p, file_type |-> f]) :
            s \in SiteNames, p \in TablesPaths, f \in FileTypes}
    \cup {JsonObject([site_name |-> "site_a", tables_path |-> "data"]),
          JsonObject([tables_path |-> "data", file_type |-> "csv"]),
          JsonObject([site_name |-> "site_a", file_type |-> "csv"])}

Ids == {1, 2}

Ages == {17, 18}

AdmitTexts == {DateText(2019, 12, 31), DateText(2021, 12, 31), DateTimeText(2021, 12, 31, 10)}

HospRow(id, admit, age) ==
    [hospitalization_id |-> id, admission_dttm |-> admit, age_at_admission |-> age]

HospRows == {HospRow(id, admit, age) : id \in Ids, admit \in AdmitTexts, age \in Ages}

\* The hospitalization table of the scenario of section 8 of the specification.
ScenarioTable ==
    Frame(HospColumns,
          <<HospRow(1, DateText(2020, 6, 1), 45), HospRow(2, DateText(2019, 12, 31), 30),
            HospRow(3, DateText(2021, 1, 1), 17), HospRow(4, DateText(2021, 1, 1), 18)>>)

SpecialTables ==
    {ScenarioTable,
     Frame(HospColumns, <<HospRow(1, DateText(2020, 1, 1), 18),
                          HospRow(2, DateText(2022, 1, 1), 45)>>),
     Frame(HospColumns, <<HospRow(1, DateTimeText(2019, 12, 31, 23), 18),
                          HospRow(2, DateTimeText(2020, 1, 1, 10), 18)>>),
     Frame(HospColumns, <<HospRow(1, NullCell, 45), HospRow(2, DateText(2020, 6, 1), 45)>>),
     Frame(HospColumns, <<HospRow(1, GarbageText, 45)>>),
     Frame({"hospitalization_id", "age_at_admission"},
           <<[hospitalization_id |-> 1, age_at_admission |-> 45]>>),
     Frame({"hospitalization_id", "admission_dttm"},
           <<[hospitalization_id |-> 1, admission_dttm |-> DateText(2020, 6, 1)]>>),
     Frame({"admission_dttm", "age_at_admission"},
           <<[admission_dttm |-> DateText(2020, 6, 1), age_at_admission |-> 45]>>)}

HospTables ==
    {Frame(HospColumns, rws) : rws \in UNION {[1..n -> HospRows] : n \in 0..MaxRows}}
    \cup SpecialTables

OtherTables ==
    {Frame({"hospitalization_id"}, <<[hospitalization_id |-> 1]>>),
     Frame({"hospitalization_id"}, <<[hospitalization_id |-> 2], [hospitalization_id |-> 2]>>)}

FilesFor(table) ==
    {AbsentFile}
    \cup {TableFile(f) : f \in IF table = "hospitalization" THEN HospTables ELSE OtherTables}

(***************************************************************************)
(* State.                                                                  *)
(***************************************************************************)
VARIABLES
    pc,                  \* source line of the next statement
    error,               \* the uncaught exception, "none" while running
    utilsOnPath,         \* whether sys.path leads to the utils package
    configFile,          \* config/config.json
    config,              \* the name `config` of the script
    site_name, tables_path, file_type,
    filepath,            \* adt_filepath, hospitalization_filepath, ...
    opened,              \* the table files as found when opened
    readLog,             \* the paths opened, in order
    df,                  \* clif_adt, clif_hospitalization, ...
    admissions_filtered,
    cohort

vars ==
    <<pc, error, utilsOnPath, configFile, config, site_name, tables_path, file_type,
      filepath, opened, readLog, df, admissions_filtered, cohort>>

envVars == <<utilsOnPath, configFile>>

settingVars == <<site_name, tables_path, file_type>>

frameVars == <<opened, readLog, df, admissions_filtered, cohort>>

Running == error = "none" /\ pc # LineEnd

Aborted == error # "none"

Done == error = "none" /\ pc = LineEnd

NothingLoaded ==
    /\ filepath = [t \in TableNames |-> Unset]
    /\ opened = [t \in TableNames |-> Unopened]
    /\ readLog = <<>>
    /\ df = [t \in TableNames |-> NoFrame]
    /\ admissions_filtered = NoFrame
    /\ cohort = NoFrame

\* The process starts: nothing is bound.
Init ==
    /\ pc = LineImport
    /\ error = "none"
    /\ utilsOnPath \in BOOLEAN
    /\ configFile \in ConfigFiles
    /\ config = Unbound
    /\ site_name = Unset /\ tables_path = Unset /\ file_type = Unset
    /\ NothingLoaded

\* Line 9 (runs utils/config.py).
ImportConfig ==
    /\ Running /\ pc = LineImport
    /\ LET r == ImportUtilsConfig(utilsOnPath, configFile)
       IN  /\ config' = r.value
           /\ error' = r.err
           /\ pc' = IF r.err = "none" THEN LineAccess ELSE pc
    /\ UNCHANGED <<envVars, settingVars, filepath, frameVars>>

\* Lines 18-20.
AccessConfig ==
    /\ Running /\ pc = LineAccess
    /\ LET s == Subscript(config, "site_name")
           p == Subscript(config, "tables_path")
           f == Subscript(config, "file_type")
           e == IF s.err # "none" THEN s.err ELSE IF p.err # "none" THEN p.err ELSE f.err
       IN  /\ site_name' = s.value
           /\ tables_path' = IF s.err = "none" THEN p.value ELSE Unset
           /\ file_type' = IF s.err = "none" /\ p.err = "none" THEN f.value ELSE Unset
           /\ error' = e
           /\ pc' = IF e = "none" THEN LinePaths ELSE pc
    /\ UNCHANGED <<envVars, config, filepath, frameVars>>

StartupNext == ImportConfig \/ AccessConfig

\* The whole script from process start.
Spec == Init /\ [][StartupNext]_vars

(***************************************************************************)
(* Lines 44-102 on their own, for every file type: the state in which      *)
(* lines 18-20 leave the script when the name config is bound to the       *)
(* mapping load_config returned.  The site name is only printed and the    *)
(* directory only names the files, whose contents the reads choose.        *)
(***************************************************************************)
PipelineInit ==
    /\ pc = LinePaths
    /\ error = "none"
    /\ utilsOnPath = TRUE
    /\ \E s \in {"site_a"}, p \in {"data"}, f \in FileTypes :
          /\ configFile = JsonObject([site_name |-> s, tables_path |-> p, file_type |-> f])
          /\ config = Mapping(configFile.items)
          /\ site_name = s /\ tables_path = p /\ file_type = f
    /\ NothingLoaded

\* Lines 44-49.
BuildPaths ==
    /\ Running /\ pc = LinePaths
    /\ filepath' = [t \in TableNames |-> FilePath(tables_path, t, file_type)]
    /\ pc' = LineFirstRead
    /\ UNCHANGED <<error, envVars, config, settingVars, frameVars>>

\* Lines 83-88: clif_<table> = read_data(<table>_filepath, file_type).
ReadTable(i) ==
    /\ Running /\ pc = LineFirstRead + i - 1
    /\ \E file \in FilesFor(Tables[i]) :
          LET r == read_data(filepath[Tables[i]], file_type, file)
          IN  /\ readLog' = readLog \o r.opens
              /\ opened' = IF r.opens = <<>> THEN opened
                           ELSE [opened EXCEPT ![Tables[i]] = file]
              /\ df' = IF r.err = "none" THEN [df EXCEPT ![Tables[i]] = r.df] ELSE df
              /\ error' = r.err
              /\ pc' = IF r.err = "none" THEN AfterRead(pc) ELSE pc
    /\ UNCHANGED <<envVars, config, settingVars, filepath, admissions_filtered, cohort>>

\* Line 92.
Coerce ==
    /\ Running /\ pc = LineCoerce
    /\ LET r == CoerceAdmission(df["hospitalization"])
       IN  /\ df' = IF r.err = "none" THEN [df EXCEPT !["hospitalization"] = r.df] ELSE df
           /\ error' = r.err
           /\ pc' = IF r.err = "none" THEN LineDateFilter ELSE pc
    /\ UNCHANGED <<envVars, config, settingVars, filepath, opened, readLog,
                   admissions_filtered, cohort>>

\* The date filter followed by a restriction to the hospitalizations of clif_adt.
FilterAdmissionsJoined ==
    /\ Running /\ pc = LineDateFilter
    /\ LET r == DateFilter(df["hospitalization"])
           inAdt == [k \in 1..Len(r.df.rows) |->
                       \/ "hospitalization_id" \notin r.df.columns
                       \/ \E i \in 1..Len(df["adt"].rows) :
                             df["adt"].rows[i].hospitalization_id = r.df.rows[k].hospitalization_id]
       IN  /\ admissions_filtered' =
                 IF r.err = "none" THEN Frame(r.df.columns, SelectRows(r.df.rows, inAdt))
                 ELSE r.df
           /\ error' = r.err
           /\ pc' = IF r.err = "none" THEN LineAgeFilter ELSE pc
    /\ UNCHANGED <<envVars, config, settingVars, filepath, opened, readLog, df, cohort>>

\* Lines 95-98.
FilterAdmissions ==
    /\ Running /\ pc = LineDateFilter
    /\ LET r == DateFilter(df["hospitalization"])
       IN  /\ admissions_filtered' = r.df
           /\ error' = r.err
           /\ pc' = IF r.err = "none" THEN LineAgeFilter ELSE pc
    /\ UNCHANGED <<envVars, config, settingVars, filepath, opened, readLog, df, cohort>>

\* Line 101.
FilterAdults ==
    /\ Running /\ pc = LineAgeFilter
    /\ LET r == AgeFilter(admissions_filtered)
       IN  /\ cohort' = r.df
           /\ error' = r.err
           /\ pc' = IF r.err = "none" THEN LineProject ELSE pc
    /\ UNCHANGED <<envVars, config, settingVars, filepath, opened, readLog, df,
                   admissions_filtered>>

\* Line 102; nothing follows it.
ProjectCohort ==
    /\ Running /\ pc = LineProject
    /\ LET r == ProjectIds(cohort)
       IN  /\ cohort' = IF r.err = "none" THEN r.df ELSE cohort
           /\ error' = r.err
           /\ pc' = IF r.err = "none" THEN LineEnd ELSE pc
    /\ UNCHANGED <<envVars, config, settingVars, filepath, opened, readLog, df,
                   admissions_filtered>>

PipelineNext ==
    \/ BuildPaths
    \/ \E i \in 1..Len(Tables) : ReadTable(i)
    \/ Coerce
    \/ FilterAdmissions
    \/ FilterAdults
    \/ ProjectCohort

PipelineSpec == PipelineInit /\ [][PipelineNext]_vars

(***************************************************************************)
(* Vocabulary of the properties, stated on the files as they were read and *)
(* on calendar dates, without the conversions of the script.               *)
(***************************************************************************)
HospFile == opened["hospitalization"].table

RowsOf(frame) == {frame.rows[i] : i \in 1..Len(frame.rows)}

IdsOf(frame) == {r.hospitalization_id : r \in RowsOf(frame)}

\* a is at or before b, both texts, by year, month, day and hour.
CalendarLe(a, b) ==
    \/ a.year < b.year
    \/ a.year = b.year /\ a.month < b.month
    \/ a.year = b.year /\ a.month = b.month /\ a.day < b.day
    \/ a.year = b.year /\ a.month = b.month /\ a.day = b.day /\ a.hour <= b.hour

SameDay(a, b) == a.year = b.year /\ a.month = b.month /\ a.day = b.day

\* The admission instant lies from start_date 00:00 to end_date 00:00.
InRange(c) == c.kind = "text" /\ CalendarLe(start_date, c) /\ CalendarLe(c, end_date)

Qualifies(r) == InRange(r.admission_dttm) /\ r.age_at_admission >= 18

QualifyingIds(frame) == {r.hospitalization_id : r \in {q \in RowsOf(frame) : Qualifies(q)}}

CarriedBy(frame, id) == {i \in 1..Len(frame.rows) : frame.rows[i].hospitalization_id = id}

\* The qualifying identifiers of a table, each once, in the order of their first qualifying row.
ExpectedCohort(frame) ==
    LET F[i \in 0..Len(frame.rows)] ==
            IF i = 0 THEN <<>>
            ELSE LET id == frame.rows[i].hospitalization_id
                 IN  IF Qualifies(frame.rows[i])
                        /\ \A j \in 1..Len(F[i - 1]) : F[i - 1][j].hospitalization_id # id
                     THEN Append(F[i - 1], [hospitalization_id |-> id])
                     ELSE F[i - 1]
    IN  Frame({"hospitalization_id"}, F[Len(frame.rows)])

\* The rows of a table whose identifier is in ids, all columns kept.
RestrictTo(frame, ids) ==
    Frame(frame.columns,
          SelectRows(frame.rows,
                     [i \in 1..Len(frame.rows) |-> frame.rows[i].hospitalization_id \in ids]))

ValidSettings ==
    /\ utilsOnPath
    /\ configFile.state = "object"
    /\ DOMAIN configFile.items = {"site_name", "tables_path", "file_type"}

C2_BoundaryDaysIncluded ==
    Done => \A r \in RowsOf(HospFile) :
                (/\ r.age_at_admission >= 18
                 /\ r.admission_dttm.kind = "text"
                 /\ (SameDay(r.admission_dttm, start_date) \/ SameDay(r.admission_dttm, end_date)))
                => r.hospitalization_id \in IdsOf(cohort)

(***************************************************************************)
(* C3: the cohort holds no hospitalization_id twice and has at most as     *)
(* many entries as the hospitalization table has distinct identifiers.     *)
(***************************************************************************)
C3_NoDuplicates ==
    Done => /\ \A i, j \in 1..Len(cohort.rows) :
                  cohort.rows[i].hospitalization_id = cohort.rows[j].hospitalization_id => i = j
            /\ Len(cohort.rows) <= Cardinality(IdsOf(HospFile))

C3_Witness ==
    /\ Done
    /\ Len(cohort.rows) = 1
    /\ \E i, j \in 1..Len(HospFile.rows) :
          /\ i # j
          /\ HospFile.rows[i].hospitalization_id = HospFile.rows[j].hospitalization_id
          /\ Qualifies(HospFile.rows[i]) /\ Qualifies(HospFile.rows[j])

(***************************************************************************)
(* C4 as stated: the filter chain applied to the cohort table itself       *)
(* completes and yields the same identifiers.                              *)
(***************************************************************************)
C4_IdempotentOnOwnOutput ==
    Done => /\ CohortFilter(cohort).err = "none"
            /\ IdsOf(CohortFilter(cohort).df) = IdsOf(cohort)

(***************************************************************************)
(* C4 amended: the filter chain applied to the rows of the hospitalization *)
(* table whose hospitalization_id is in the cohort, all columns kept,      *)
(* completes and yields the same identifiers.                              *)
(***************************************************************************)
C4_IdempotentOnCohortRows ==
    Done => LET again == CohortFilter(RestrictTo(HospFile, IdsOf(cohort)))
            IN  again.err = "none" /\ IdsOf(again.df) = IdsOf(cohort)

C4_Witness ==
    /\ Done
    /\ IdsOf(cohort) # {}
    /\ IdsOf(cohort) # IdsOf(HospFile)
    /\ CohortFilter(cohort).err = "KeyError"
    /\ IdsOf(CohortFilter(RestrictTo(HospFile, IdsOf(cohort))).df) = IdsOf(cohort)

(***************************************************************************)
(* C5 as stated: every identifier of the cohort is carried by exactly one  *)
(* row of the hospitalization table, and that row is in range and adult.   *)
(***************************************************************************)
C5_ExactlyOneEncounter ==
    Done => \A id \in IdsOf(cohort) :
                /\ Cardinality(CarriedBy(HospFile, id)) = 1
                /\ \A i \in CarriedBy(HospFile, id) : Qualifies(HospFile.rows[i])

(***************************************************************************)
(* C5 amended: every identifier of the cohort is carried by at least one   *)
(* row of the hospitalization table that is in range and adult; by exactly *)
(* one row when no two rows of the table share a hospitalization_id.       *)
(***************************************************************************)
C5_AtLeastOneEncounter ==
    Done => \A id \in IdsOf(cohort) :
                /\ \E i \in CarriedBy(HospFile, id) : Qualifies(HospFile.rows[i])
                /\ Cardinality(IdsOf(HospFile)) = Len(HospFile.rows)
                   => /\ Cardinality(CarriedBy(HospFile, id)) = 1
                      /\ \A i \in CarriedBy(HospFile, id) : Qualifies(HospFile.rows[i])

C5_Witness ==
    /\ Done
    /\ \E id \in IdsOf(cohort) :
          /\ Cardinality(CarriedBy(HospFile, id)) = 2
          /\ \E i \in CarriedBy(HospFile, id) : ~Qualifies(HospFile.rows[i])

(***************************************************************************)
(* C6: with a file_type other than 'csv' and 'parquet' in the              *)
(* configuration, the run ends in read_data's ValueError at the first      *)
(* read (line 83), no file opened, no table loaded, no cohort computed.    *)
(***************************************************************************)
C6_UnsupportedTypeAbortsAtFirstRead ==
    (/\ ValidSettings
     /\ configFile.items.file_type \notin {"csv", "parquet"}
     /\ Aborted)
    => /\ error = "ValueError"
       /\ pc = LineFirstRead
       /\ readLog = <<>>
       /\ \A t \in TableNames : df[t] = NoFrame
       /\ cohort = NoFrame

(***************************************************************************)
(* C7: when config/config.json does not exist, load_config raises          *)
(* FileNotFoundError and returns no mapping, and the run ends at the       *)
(* import: no setting is read, no file is opened, no cohort is computed.   *)
(***************************************************************************)
C7_MissingConfigIsFatal ==
    (configFile.state = "absent" /\ (Aborted \/ pc # LineImport))
    => /\ Aborted
       /\ pc = LineImport
       /\ utilsOnPath => error = "FileNotFoundError"
       /\ config = Unbound
       /\ site_name = Unset /\ tables_path = Unset /\ file_type = Unset
       /\ NothingLoaded

C7_Witness ==
    configFile.state = "absent" /\ utilsOnPath /\ error = "FileNotFoundError"

(***************************************************************************)
(* C8: when the script ends, the cohort is a function of the               *)
(* hospitalization file alone, and the five other tables are as read.      *)
(***************************************************************************)
C8_CohortFromHospitalizationOnly ==
    Done => /\ cohort = ExpectedCohort(HospFile)
            /\ \A t \in TableNames \ {"hospitalization"} : df[t] = opened[t].table

C8_Witness ==
    /\ Done
    /\ IdsOf(cohort) # {}
    /\ IdsOf(cohort) \cap IdsOf(df["adt"]) = {}
    /\ df["vitals"] # df["labs"]

(***************************************************************************)
(* C9: the table files are opened in the order adt, hospitalization,       *)
(* vitals, labs, medication_admin_continuous, respiratory_support, each    *)
(* once; the filter chain runs only when all six are loaded; a failed read *)
(* ends the run with no later read and no cohort; every statement moves    *)
(* the run forward and only a finished or an aborted run stops.            *)
(***************************************************************************)
C9_ReadsInOrderThenFilter ==
    /\ [](/\ Len(readLog) <= Len(Tables)
          /\ \A k \in 1..Len(readLog) : readLog[k] = filepath[Tables[k]]
          /\ \A k \in 1..Len(Tables) :
                df[Tables[k]] # NoFrame => /\ k <= Len(readLog)
                                           /\ opened[Tables[k]].state = "present"
          /\ (pc >= LineCoerce \/ cohort # NoFrame \/ admissions_filtered # NoFrame)
             => /\ Len(readLog) = Len(Tables)
                /\ \A t \in TableNames : df[t] # NoFrame
          /\ (Aborted /\ pc < LineCoerce)
             => /\ cohort = NoFrame
                /\ Len(readLog) <= pc - LineFirstRead + 1
                /\ \A k \in 1..Len(Tables) : k > pc - LineFirstRead => df[Tables[k]] = NoFrame
          /\ (Aborted /\ pc # LineProject) => cohort = NoFrame
          /\ (Aborted /\ pc = LineProject) => "hospitalization_id" \notin cohort.columns
          /\ Done \/ Aborted \/ ENABLED PipelineNext)
    /\ [][/\ ~Aborted
          /\ pc' > pc \/ Aborted'
          /\ Len(readLog') <= Len(readLog) + 1]_vars

C9_Witness ==
    /\ Aborted
    /\ error = "FileNotFoundError"
    /\ pc = LineFirstRead + 2
    /\ Len(readLog) = 3
    /\ df["hospitalization"] # NoFrame

(***************************************************************************)
(* C10: with a configuration file holding the three settings and a         *)
(* supported file_type, the name config of the script is the mapping       *)
(* load_config returned and the run does not end before the reads.         *)
(***************************************************************************)
C10_StartupReachesReads ==
    (ValidSettings /\ configFile.items.file_type \in {"csv", "parquet"})
    => /\ pc # LineImport => config = Mapping(configFile.items)
       /\ Aborted => pc >= LineFirstRead

====
